---- MODULE Spec2Model ----
(***************************************************************************)
(* Generation-and-verification pipeline of temporal-genai:                 *)
(*   orchestrator/generator.py             (Generation Stage)              *)
(*   orchestrator/verification_agent.py    (Verification Stage)            *)
(*   orchestrator/workflow_orchestrator.py (Pipeline Coordinator)          *)
(*                                                                         *)
(* Text is a sequence of tokens.  The four sentinel markers and the        *)
(* fenced-code delimiters are literal substrings in the source; here each  *)
(* literal is a short token sequence, and all other text is characters:    *)
(*   "AS" = "### ACTIVITIES_START ###"   "AE" = "### ACTIVITIES_END ###"   *)
(*   "WS" = "### WORKFLOW_START ###"     "WE" = "### WORKFLOW_END ###"     *)
(*   "F"  = "```"      "P" = "python"    (so "```python" is <<"F","P">>)    *)
(*   "J"  = "json"     (so "```json" is <<"F","J">>)                       *)
(*   "SP" = one whitespace character     "X" = any other character         *)
(***************************************************************************)
EXTENDS Integers, Sequences, FiniteSets, TLC

VARIABLES
    inv,                 \* concurrent invocations: each one's position and local values
    last_writer,         \* per file, the invocation whose write_text wrote it most recently
    review_input,        \* code_generation_workflow: the artifacts handed to verify_workflow_code
    pc,                  \* position of the invocation in code_generation_workflow
    stdout_ok,           \* environment: whether print() to the console succeeds
    template,            \* environment: the deployed prompt template file
    fs_at_entry,         \* the generated/ directory as it was when the invocation began
    user_prompt,         \* the instruction passed to code_generation_workflow
    generated_code,      \* generate_temporal_code: reply of the generation gateway call
    activities,          \* generate_temporal_code: extracted activities artifact
    workflow,            \* generate_temporal_code: extracted workflow artifact
    fs,                  \* the generated/ directory on disk
    save_result,         \* generate_temporal_code: what save_generated_files returned
    response,            \* verify_workflow_code: reply of the review gateway call
    generation_result,   \* code_generation_workflow: result of generate_temporal_code
    verification_result, \* code_generation_workflow: result of verify_workflow_code
    final_result,        \* the envelope code_generation_workflow returns
    llm_calls,           \* number of generate_code (gateway) calls made so far
    verify_calls         \* number of verify_workflow_code invocations so far

vars == <<inv, last_writer, review_input, pc, stdout_ok, template, fs_at_entry, user_prompt, generated_code,
          activities, workflow, fs, save_result, response, generation_result,
          verification_result, final_result, llm_calls, verify_calls>>

(***************************************************************************)
(* Bounds of the model.                                                    *)
(***************************************************************************)
MaxContentLen == 2   \* longest artifact content between a marker pair (parse inputs)
MaxTextLen == 4      \* longest unstructured gateway text (parse inputs)
MaxArtLen == 1       \* longest artifact content in a pipeline run
MaxErrors == 2       \* longest errors list in a review reply
MaxRaceLen == 2      \* longest artifact content in a concurrent run

(***************************************************************************)
(* Python values.  A value that may be None, or whose type the code does   *)
(* not fix (anything decoded from JSON), carries its type as a tag.        *)
(***************************************************************************)
PyNone == [t |-> "none"]
Str(s) == [t |-> "str", v |-> s]
Bool(b) == [t |-> "bool", v |-> b]
Num(n) == [t |-> "num", v |-> n]
List(q) == [t |-> "list", v |-> q]
Dict(d) == [t |-> "dict", v |-> d]
Text(q) == [t |-> "text", v |-> q]

EmptyDict == [k \in {} |-> PyNone]

\* Python truth value of a tagged value (bool(x)).
Truthy(x) ==
    CASE x.t = "none" -> FALSE
      [] x.t = "bool" -> x.v
      [] x.t = "num"  -> x.v # 0
      [] x.t = "str"  -> x.v # ""
      [] x.t = "list" -> x.v # <<>>
      [] x.t = "dict" -> DOMAIN x.v # {}
      [] x.t = "text" -> x.v # <<>>

\* dict.get(key, default)
Get(d, key, default) == IF key \in DOMAIN d THEN d[key] ELSE default

(***************************************************************************)
(* String primitives, on token sequences, with Python's conventions:       *)
(* 0-based positions, find() = -1 when absent, slices clamp.               *)
(***************************************************************************)
ACTIVITIES_START == <<"AS">>
ACTIVITIES_END == <<"AE">>
WORKFLOW_START == <<"WS">>
WORKFLOW_END == <<"WE">>
FENCE == <<"F">>
FENCE_PYTHON == <<"F", "P">>
FENCE_JSON == <<"F", "J">>

IsSpace(c) == c = "SP"

\* s[i:j] for 0 <= i
Slice(s, i, j) ==
    LET hi == IF j > Len(s) THEN Len(s) ELSE j
    IN  IF hi <= i THEN <<>> ELSE SubSeq(s, i + 1, hi)

\* s.startswith(pat, i)
MatchAt(s, pat, i) ==
    /\ i + Len(pat) <= Len(s)
    /\ \A k \in 1..Len(pat) : s[i + k] = pat[k]

\* s.find(pat): lowest index of an occurrence, -1 if there is none
FindLast(s, pat) ==
    LET hits == {i \in 0..Len(s) : MatchAt(s, pat, i)}
    IN  IF hits = {} THEN -1
        ELSE CHOOSE i \in hits : \A j \in hits : i >= j
Find(s, pat) ==
    LET hits == {i \in 0..Len(s) : MatchAt(s, pat, i)}
    IN  IF hits = {} THEN -1
        ELSE CHOOSE i \in hits : \A j \in hits : i <= j

\* s.replace(pat, ""): delete the non-overlapping occurrences, left to right
RECURSIVE Remove(_, _)
Remove(s, pat) ==
    IF s = <<>> THEN <<>>
    ELSE IF MatchAt(s, pat, 0) THEN Remove(Slice(s, Len(pat), Len(s)), pat)
    ELSE <<Head(s)>> \o Remove(Tail(s), pat)

RECURSIVE LStrip(_)
LStrip(s) == IF s # <<>> /\ IsSpace(Head(s)) THEN LStrip(Tail(s)) ELSE s

RECURSIVE RStrip(_)
RStrip(s) ==
    IF s # <<>> /\ IsSpace(s[Len(s)]) THEN RStrip(SubSeq(s, 1, Len(s) - 1)) ELSE s

\* s.strip()
Strip(s) == RStrip(LStrip(s))

(***************************************************************************)
(* generator.py: parse_generated_code                                      *)
(***************************************************************************)
\* generator.py:49-50  x.replace("```python", "").replace("```", "").strip()
CleanFences(x) == Strip(Remove(Remove(x, FENCE_PYTHON), FENCE))

\* generator.py:29-36 and 39-46: one marker pair
ExtractFromMarker(code, startm, endm) ==
    LET s == Find(code, startm)
        e == Find(code, endm)
    IN  IF s = -1 \/ e = -1 THEN <<>>
        ELSE Strip(Slice(code, s, e))
ExtractBetween(code, startm, endm) ==
    LET s == Find(code, startm)
        e == Find(code, endm)
    IN  IF s = -1 \/ e = -1 THEN <<>>
        ELSE Strip(Slice(code, s + Len(startm), e))

\* generator.py:20-55.  A reply that is not a str makes code.find raise
\* AttributeError, which the except clause turns into ("", "").
parse_generated_code(code) ==
    IF code.t # "text" THEN [activities |-> <<>>, workflow |-> <<>>]
    ELSE [activities |-> CleanFences(ExtractBetween(code.v, ACTIVITIES_START, ACTIVITIES_END)),
          workflow   |-> CleanFences(ExtractBetween(code.v, WORKFLOW_START, WORKFLOW_END))]

(***************************************************************************)
(* Inputs of a pipeline run.                                               *)
(***************************************************************************)
Instructions == {"", "create a workflow named payment"}

\* Exceptions the collaborators raise; str(e) is e.msg.
Exc(type, msg) == [type |-> type, msg |-> msg]
TemplateErrors == {Exc("FileNotFoundError", "No such file or directory: generate_code_prompt.txt"),
                   Exc("KeyError", "'name'")}
GatewayErrors == {Exc("APIConnectionError", "Connection error.")}

\* The prompt template as deployed: readable and well-formed, or such that
\* load_prompt_template or template.format raises.
GoodTemplate == [ok |-> TRUE, exc |-> Exc("", "")]
Templates == {GoodTemplate} \cup {[ok |-> FALSE, exc |-> e] : e \in TemplateErrors}

SeqsUpTo(S, n) == UNION {[1..k -> S] : k \in 0..n}

\* One marker pair with its content, or nothing when the pair is missing.
Segment(startm, endm, present, content) ==
    IF present THEN startm \o content \o endm ELSE <<>>

\* Texts the generation gateway returns in a pipeline run.
\* The two blocks are written with different characters, so that one artifact
\* is never mistaken for the other.
ArtContents == SeqsUpTo({"X", "F"}, MaxArtLen)
WorkflowContents == SeqsUpTo({"Y", "F"}, MaxArtLen)
GenTexts ==
    {Segment(ACTIVITIES_START, ACTIVITIES_END, pa, a)
        \o Segment(WORKFLOW_START, WORKFLOW_END, pw, w) :
        <<pa, a, pw, w>> \in BOOLEAN \X ArtContents \X BOOLEAN \X WorkflowContents}

\* generate_code (llm_client.py:13-45) re-raises any client error; otherwise it
\* returns message.content, which is a str or None.
GenReplies ==
    {[k |-> "raise", exc |-> e, v |-> PyNone] : e \in GatewayErrors}
    \cup {[k |-> "return", exc |-> Exc("", ""), v |-> PyNone]}
    \cup {[k |-> "return", exc |-> Exc("", ""), v |-> Text(t)] : t \in GenTexts}

(***************************************************************************)
(* generator.py: _create_response                                          *)
(***************************************************************************)
_create_response(status, error, files_generated, instruction, message, details) ==
    [status |-> status,
     message |-> message,
     error |-> error,
     data |-> [instruction |-> instruction,
               generated_files |-> IF files_generated.t = "none" THEN EmptyDict
                                   ELSE files_generated.v,
               details |-> IF Truthy(details) THEN details.v ELSE EmptyDict]]

(***************************************************************************)
(* generator.py: save_generated_files                                      *)
(***************************************************************************)
ACTIVITIES_PY == "activities.py"
WORKFLOW_PY == "workflow.py"

\* The generated/ directory: whether it and __init__.py exist, and the
\* contents of the two artifact files (PyNone: the file does not exist).
FreshStore == [dir |-> FALSE, init |-> FALSE, act |-> PyNone, wf |-> PyNone]
UsedStore == [dir |-> TRUE, init |-> TRUE,
              act |-> Text(<<"O", "A">>), wf |-> Text(<<"O", "W">>)]

\* What one write_text call does: "ok" writes the content; a failing call
\* either leaves the file as it was ("fail": open refused) or leaves it
\* truncated ("trunc": opened for writing, then the write failed).
WriteOutcomes == {"ok", "fail", "trunc"}
WriteTextAppend(old, content, outcome) ==
    CASE outcome = "ok" -> IF old.t = "text" THEN Text(old.v \o content) ELSE Text(content)
      [] outcome = "fail" -> old
      [] outcome = "trunc" -> Text(<<>>)
WriteText(old, content, outcome) ==
    CASE outcome = "ok" -> Text(content)
      [] outcome = "fail" -> old
      [] outcome = "trunc" -> Text(<<>>)

SavedMessage(n) == IF n = 1 THEN "Saved 1 files" ELSE "Saved 2 files"

\* generator.py:57-103.  mkdir_ok, init_ok: whether mkdir and the write of
\* __init__.py succeed; act_w, wf_w: the outcomes of the two write_text calls.
\* Returns the dict the function returns and the directory it leaves behind.
save_generated_files(store, activities_code, workflow_code, mkdir_ok, init_ok, act_w, wf_w) ==
    IF ~mkdir_ok THEN
        [result |-> [success |-> FALSE, files_saved |-> <<>>,
                     message |-> "Error saving files: " \o "Permission denied: generated"],
         store |-> store]
    ELSE IF ~store.init /\ ~init_ok THEN
        [result |-> [success |-> FALSE, files_saved |-> <<>>,
                     message |-> "Error saving files: " \o "Permission denied: __init__.py"],
         store |-> [store EXCEPT !.dir = TRUE]]
    ELSE
        LET saved_files == (IF act_w = "ok" THEN <<ACTIVITIES_PY>> ELSE <<>>)
                           \o (IF wf_w = "ok" THEN <<WORKFLOW_PY>> ELSE <<>>)
        IN  [result |-> [success |-> Len(saved_files) > 0,
                         files_saved |-> saved_files,
                         message |-> IF saved_files # <<>>
                                     THEN SavedMessage(Len(saved_files))
                                     ELSE "Failed to save any files"],
             store |-> [dir |-> TRUE, init |-> TRUE,
                        act |-> WriteText(store.act, activities_code, act_w),
                        wf |-> WriteText(store.wf, workflow_code, wf_w)]]

(***************************************************************************)
(* generator.py: generate_temporal_code, one step per guarded block        *)
(***************************************************************************)
NoResult == [status |-> "unset"]
Unset == [t |-> "unset"]
\* The artifacts handed to verify_workflow_code, none before the call.
NoReviewInput == [activities_code |-> <<>>, workflow_code |-> <<>>]
\* Concurrent invocations of code_generation_workflow (requests served at the
\* same time); none is running in the specifications of a single invocation.
Procs == {1, 2}
IdleInvocation ==
    [pc |-> "idle", user_prompt |-> "", generated_code |-> [t |-> "unset"],
     activities |-> <<>>, workflow |-> <<>>, saved_files |-> <<>>,
     response |-> [k |-> "unset"], generation_result |-> [status |-> "unset"],
     final_result |-> [status |-> "unset"]]
NoInvocations == [p \in Procs |-> IdleInvocation]
NoWriter == [act |-> 0, wf |-> 0]
NoReply == [k |-> "unset"]
NoSaveResult == [success |-> FALSE, files_saved |-> <<>>, message |-> "unset"]

\* generator.py:169-177
PromptBuildingFailedAsGeneration(instruction, e) ==
    _create_response("failed", Str("Failed to build prompt: " \o e.msg), PyNone,
                     instruction, "Prompt building failed",
                     Dict([stage |-> "code_generation", exception |-> e.msg]))
PromptBuildingFailed(instruction, e) ==
    _create_response("failed", Str("Failed to build prompt: " \o e.msg), PyNone,
                     instruction, "Prompt building failed",
                     Dict([stage |-> "prompt_building", exception |-> e.msg]))

\* generator.py:183-191
CodeGenerationFailed(instruction, e) ==
    _create_response("failed", Str("Failed to generate code from LLM: " \o e.msg), PyNone,
                     instruction, "LLM code generation failed",
                     Dict([stage |-> "code_generation", exception |-> e.msg]))

\* generator.py:198-209
CodeParsingFailedAsSuccess(instruction) ==
    _create_response("success", PyNone, PyNone,
                     instruction, "Workflow generated successfully",
                     Dict([files_saved |-> <<>>]))
CodeParsingFailed(instruction) ==
    _create_response("failed", Str("Could not generate valid Temporal code from the prompt"),
                     PyNone, instruction,
                     "The prompt does not seem to describe a distributed workflow task. Temporal workflows are for long-running, distributed business processes.",
                     Dict([stage |-> "code_parsing",
                           reason |-> "Generated code was empty. Hint: Use prompts like 'Create a workflow that processes payments with retry logic' instead of 'Download an app'."]))

\* generator.py:237-256
SaveOutcomeNoError(instruction, acts, wf, save_res) ==
    IF save_res.success THEN
        _create_response("success", PyNone,
                         Dict((ACTIVITIES_PY :> acts) @@ (WORKFLOW_PY :> wf)),
                         instruction, "Workflow generated successfully",
                         Dict([files_saved |-> save_res.files_saved]))
    ELSE
        _create_response("failed", PyNone, Dict(EmptyDict),
                         instruction, "Failed to save generated files",
                         Dict([stage |-> "file_saving", reason |-> save_res.message]))
SaveOutcome(instruction, acts, wf, save_res) ==
    IF save_res.success THEN
        _create_response("success", PyNone,
                         Dict((ACTIVITIES_PY :> acts) @@ (WORKFLOW_PY :> wf)),
                         instruction, "Workflow generated successfully",
                         Dict([files_saved |-> save_res.files_saved]))
    ELSE
        _create_response("failed", Str(save_res.message), Dict(EmptyDict),
                         instruction, "Failed to save generated files",
                         Dict([stage |-> "file_saving", reason |-> save_res.message]))

Init ==
    /\ pc = "start"
    /\ stdout_ok \in BOOLEAN
    /\ template \in Templates
    /\ user_prompt \in Instructions
    /\ fs \in {FreshStore, UsedStore}
    /\ fs_at_entry = fs
    /\ save_result = NoSaveResult
    /\ response = NoReply
    /\ review_input = NoReviewInput
    /\ inv = NoInvocations
    /\ last_writer = NoWriter
    /\ generated_code = Unset
    /\ activities = <<>>
    /\ workflow = <<>>
    /\ generation_result = NoResult
    /\ verification_result = NoResult
    /\ final_result = NoResult
    /\ llm_calls = 0
    /\ verify_calls = 0

\* workflow_orchestrator.py:26-34.  The coordinator prints its banner outside
\* any try block and then calls generate_temporal_code; a print that raises
\* (closed stream, console encoding without the banner's characters)
\* propagates out of code_generation_workflow.
Start ==
    /\ pc = "start"
    /\ pc' = IF stdout_ok THEN "build_prompt" ELSE "raised"
    /\ UNCHANGED <<inv, last_writer, review_input, stdout_ok, template, fs_at_entry, user_prompt,
                   save_result, response, generated_code, activities, workflow, fs,
                   generation_result, verification_result, final_result, llm_calls,
                   verify_calls>>

\* generator.py:153-177: tools prompt, load_prompt_template, template.format
BuildPrompt ==
    /\ pc = "build_prompt"
    /\ IF template.ok
       THEN /\ pc' = "call_llm"
            /\ UNCHANGED generation_result
       ELSE /\ generation_result' = PromptBuildingFailed(user_prompt, template.exc)
            /\ pc' = "check"
    /\ UNCHANGED <<inv, last_writer, review_input, stdout_ok, template, fs_at_entry, user_prompt,
                   save_result, response, generated_code, activities, workflow, fs,
                   verification_result, final_result, llm_calls, verify_calls>>

\* generator.py:180-191: generate_code(prompt)
CallLLM ==
    /\ pc = "call_llm"
    /\ llm_calls' = llm_calls + 1
    /\ \E r \in GenReplies :
          IF r.k = "raise"
          THEN /\ generation_result' = CodeGenerationFailed(user_prompt, r.exc)
               /\ pc' = "check"
               /\ UNCHANGED generated_code
          ELSE /\ generated_code' = r.v
               /\ pc' = "parse"
               /\ UNCHANGED generation_result
    /\ UNCHANGED <<inv, last_writer, review_input, stdout_ok, template, fs_at_entry, user_prompt,
                   save_result, response, activities, workflow, fs,
                   verification_result, final_result, verify_calls>>

\* generator.py:198  not activities or not workflow
ArtifactsBothEmpty(acts, wf) == acts = <<>> /\ wf = <<>>
ArtifactsEmpty(acts, wf) == acts = <<>> \/ wf = <<>>

\* generator.py:194-218: parse_generated_code and the emptiness test
ParseCodeSavesFirst ==
    /\ pc = "parse"
    /\ LET parsed == parse_generated_code(generated_code)
           saved == save_generated_files(fs, parsed.activities, parsed.workflow,
                                         TRUE, TRUE, "ok", "ok")
       IN  /\ activities' = parsed.activities
           /\ workflow' = parsed.workflow
           /\ fs' = saved.store
           /\ IF ArtifactsEmpty(parsed.activities, parsed.workflow)
              THEN /\ generation_result' = CodeParsingFailed(user_prompt)
                   /\ pc' = "check"
              ELSE /\ pc' = "save"
                   /\ UNCHANGED generation_result
    /\ UNCHANGED <<inv, last_writer, review_input, stdout_ok, template, fs_at_entry, user_prompt,
                   save_result, response, generated_code, verification_result,
                   final_result, llm_calls, verify_calls>>
ParseCode ==
    /\ pc = "parse"
    /\ LET parsed == parse_generated_code(generated_code)
       IN  /\ activities' = parsed.activities
           /\ workflow' = parsed.workflow
           /\ IF ArtifactsEmpty(parsed.activities, parsed.workflow)
              THEN /\ generation_result' = CodeParsingFailed(user_prompt)
                   /\ pc' = "check"
              ELSE /\ pc' = "save"
                   /\ UNCHANGED generation_result
    /\ UNCHANGED <<inv, last_writer, review_input, stdout_ok, template, fs_at_entry, user_prompt,
                   save_result, response, generated_code, fs, verification_result,
                   final_result, llm_calls, verify_calls>>

\* generator.py:220-256: save_generated_files and the stage result
SaveFiles ==
    /\ pc = "save"
    /\ \E mkdir_ok \in BOOLEAN, init_ok \in BOOLEAN,
          act_w \in WriteOutcomes, wf_w \in WriteOutcomes :
          LET saved == save_generated_files(fs, activities, workflow,
                                            mkdir_ok, init_ok, act_w, wf_w)
          IN  /\ fs' = saved.store
              /\ save_result' = saved.result
              /\ generation_result' =
                     SaveOutcome(user_prompt, activities, workflow, saved.result)
    /\ pc' = "check"
    /\ UNCHANGED <<inv, last_writer, review_input, stdout_ok, template, fs_at_entry, user_prompt,
                   response, generated_code, activities, workflow,
                   verification_result, final_result, llm_calls, verify_calls>>

(***************************************************************************)
(* verification_agent.py: verify_workflow_code                             *)
(***************************************************************************)
Absent == [t |-> "absent"]

\* A JSON object of the review reply: only the keys that are present.
ReviewObject(is_valid, has_errors, errors, warnings, summary) ==
    LET full == [is_valid |-> is_valid, has_errors |-> has_errors, errors |-> errors,
                 warnings |-> warnings, summary |-> summary]
    IN  [k \in {f \in DOMAIN full : full[f].t # "absent"} |-> full[k]]

ErrorTexts == {"error 1", "error 2"}
ErrorLists == SeqsUpTo(ErrorTexts, MaxErrors)

\* Values the review model may put under each key (any JSON value is possible;
\* these are the ones the code treats differently).
IsValidValues == {Absent, Bool(TRUE), Bool(FALSE), PyNone, Num(1)}
HasErrorsValues == {Absent, Bool(TRUE), Bool(FALSE)}
ErrorsValues == {Absent, PyNone, Num(5)} \cup {List(q) : q \in ErrorLists}
WarningsValues == {Absent, Num(5), List(<<>>), List(<<"warning 1">>)}
SummaryValues == {Absent, Str("ok")}

ReviewObjects ==
    {ReviewObject(iv, he, er, wa, su) :
        <<iv, he, er, wa, su>> \in
            IsValidValues \X HasErrorsValues \X ErrorsValues \X WarningsValues
                \X SummaryValues}

\* What json.loads makes of the reply's body: a decode error, a value that is
\* not an object (an array), or an object.
ReviewBodies ==
    {[j |-> "malformed", o |-> EmptyDict], [j |-> "array", o |-> EmptyDict]}
    \cup {[j |-> "object", o |-> o] : o \in ReviewObjects}

\* Text around the body: nothing, a ```json fence, a bare fence, or prose.
ReviewWraps ==
    {[pre |-> <<>>, post |-> <<>>],
     [pre |-> <<"F", "J", "SP">>, post |-> <<"SP", "F">>],
     [pre |-> <<"F", "SP">>, post |-> <<"SP", "F">>],
     [pre |-> <<"X", "SP">>, post |-> <<>>]}

ReviewReplies ==
    {[k |-> "raise", exc |-> e, text |-> FALSE, pre |-> <<>>, post |-> <<>>,
      body |-> [j |-> "malformed", o |-> EmptyDict]] : e \in GatewayErrors}
    \cup {[k |-> "return", exc |-> Exc("", ""), text |-> FALSE, pre |-> <<>>,
           post |-> <<>>, body |-> [j |-> "malformed", o |-> EmptyDict]]}
    \cup {[k |-> "return", exc |-> Exc("", ""), text |-> TRUE, pre |-> w.pre,
           post |-> w.post, body |-> b] : w \in ReviewWraps, b \in ReviewBodies}

\* verification_agent.py:65  replace("```json", "").replace("```", "").strip(),
\* applied to the text on either side of the body.
StripJsonFences(x) == Strip(Remove(Remove(x, FENCE_JSON), FENCE))

\* len(x) raises TypeError for a number or a boolean.
HasLen(x) == x.t \notin {"num", "bool", "none"}

\* verification_agent.py:106-121
VerificationErrorNoFinding(msg) ==
    [status |-> "failed",
     message |-> "Code verification failed",
     data |-> [verification_status |-> Str("FAILED"),
               is_valid |-> Bool(FALSE),
               has_errors |-> Bool(TRUE),
               errors |-> List(<<>>),
               warnings |-> List(<<>>),
               summary |-> Str("Verification failed due to: " \o msg)],
     error |-> Str(msg),
     error_details |-> Dict([errors |-> List(<<>>)])]
VerificationError(msg) ==
    [status |-> "failed",
     message |-> "Code verification failed",
     data |-> [verification_status |-> Str("FAILED"),
               is_valid |-> Bool(FALSE),
               has_errors |-> Bool(TRUE),
               errors |-> List(<<"Verification error: " \o msg>>),
               warnings |-> List(<<>>),
               summary |-> Str("Verification failed due to: " \o msg)],
     error |-> Str(msg),
     error_details |-> Dict([errors |-> List(<<"Verification error: " \o msg>>)])]

\* verification_agent.py:68-104
VerdictDefaultInvalid(result) ==
    LET has_errors == Get(result, "has_errors", Bool(FALSE))
        errors == Get(result, "errors", List(<<>>))
        warnings == Get(result, "warnings", List(<<>>))
        is_valid == Get(result, "is_valid", Bool(FALSE))
        summary == Get(result, "summary", Str("Verification completed"))
    IN  IF (Truthy(errors) /\ ~HasLen(errors)) \/ (Truthy(warnings) /\ ~HasLen(warnings))
        THEN VerificationError("object of type 'int' has no len()")
        ELSE [status |-> IF Truthy(is_valid) THEN "success" ELSE "failed",
              message |-> IF Truthy(is_valid) THEN "Code verified successfully"
                          ELSE "Code verification found issues",
              data |-> [verification_status |->
                            IF Truthy(is_valid) THEN Str("PASSED") ELSE Str("FAILED"),
                        is_valid |-> is_valid,
                        has_errors |-> has_errors,
                        errors |-> errors,
                        warnings |-> warnings,
                        summary |-> summary],
              error |-> IF Truthy(is_valid) THEN PyNone
                        ELSE Str("Verification found issues"),
              error_details |-> IF Truthy(is_valid) THEN PyNone
                                ELSE Dict([errors |-> errors, warnings |-> warnings])]
Verdict(result) ==
    LET has_errors == Get(result, "has_errors", Bool(FALSE))
        errors == Get(result, "errors", List(<<>>))
        warnings == Get(result, "warnings", List(<<>>))
        is_valid == Get(result, "is_valid", Bool(TRUE))
        summary == Get(result, "summary", Str("Verification completed"))
    IN  IF (Truthy(errors) /\ ~HasLen(errors)) \/ (Truthy(warnings) /\ ~HasLen(warnings))
        THEN VerificationError("object of type 'int' has no len()")
        ELSE [status |-> IF Truthy(is_valid) THEN "success" ELSE "failed",
              message |-> IF Truthy(is_valid) THEN "Code verified successfully"
                          ELSE "Code verification found issues",
              data |-> [verification_status |->
                            IF Truthy(is_valid) THEN Str("PASSED") ELSE Str("FAILED"),
                        is_valid |-> is_valid,
                        has_errors |-> has_errors,
                        errors |-> errors,
                        warnings |-> warnings,
                        summary |-> summary],
              error |-> IF Truthy(is_valid) THEN PyNone
                        ELSE Str("Verification found issues"),
              error_details |-> IF Truthy(is_valid) THEN PyNone
                                ELSE Dict([errors |-> errors, warnings |-> warnings])]

\* verification_agent.py:14-121, given the gateway's reply to the review prompt
verify_workflow_code_no_verdict(activities_code, workflow_code, reply) ==
    IF reply.k = "raise"
        THEN [status |-> "failed", message |-> "Code verification failed",
              error |-> Str(reply.exc.msg), error_details |-> PyNone]
    ELSE IF ~reply.text
        THEN VerificationError("'NoneType' object has no attribute 'replace'")
    ELSE IF \/ StripJsonFences(reply.pre) # <<>>
            \/ StripJsonFences(reply.post) # <<>>
            \/ reply.body.j = "malformed"
        THEN VerificationError("Expecting value: line 1 column 1 (char 0)")
    ELSE IF reply.body.j # "object"
        THEN VerificationError("'list' object has no attribute 'get'")
    ELSE Verdict(reply.body.o)
verify_workflow_code(activities_code, workflow_code, reply) ==
    IF reply.k = "raise" THEN VerificationError(reply.exc.msg)
    ELSE IF ~reply.text
        THEN VerificationError("'NoneType' object has no attribute 'replace'")
    ELSE IF \/ StripJsonFences(reply.pre) # <<>>
            \/ StripJsonFences(reply.post) # <<>>
            \/ reply.body.j = "malformed"
        THEN VerificationError("Expecting value: line 1 column 1 (char 0)")
    ELSE IF reply.body.j # "object"
        THEN VerificationError("'list' object has no attribute 'get'")
    ELSE Verdict(reply.body.o)

(***************************************************************************)
(* workflow_orchestrator.py: code_generation_workflow                      *)
(***************************************************************************)
\* workflow_orchestrator.py:41-42
activities_code_swapped ==
    Get(Get(Get(generation_result, "data", EmptyDict), "generated_files", EmptyDict),
        WORKFLOW_PY, <<>>)
activities_code ==
    Get(Get(Get(generation_result, "data", EmptyDict), "generated_files", EmptyDict),
        ACTIVITIES_PY, <<>>)
workflow_code ==
    Get(Get(Get(generation_result, "data", EmptyDict), "generated_files", EmptyDict),
        WORKFLOW_PY, <<>>)

\* workflow_orchestrator.py:46-52
EmptyFilesEnvelope ==
    [status |-> "failed",
     message |-> "Code generation produced empty files",
     data |-> EmptyDict,
     error |-> Str("Empty files"),
     error_details |-> PyNone]

\* workflow_orchestrator.py:60-80
MergeResultsStageStatus(prompt, acts, wf, verification) ==
    LET vdata == Get(verification, "data", EmptyDict)
        is_valid == Get(vdata, "is_valid", Bool(FALSE))
    IN  [status |-> verification.status,
         message |-> IF Truthy(is_valid) THEN "Code generated and verified"
                     ELSE "Code generated with issues",
         data |-> [prompt |-> prompt,
                   generated_files |-> (ACTIVITIES_PY :> acts) @@ (WORKFLOW_PY :> wf),
                   verification_status |-> Get(vdata, "verification_status", PyNone),
                   errors |-> Get(vdata, "errors", List(<<>>)),
                   warnings |-> Get(vdata, "warnings", List(<<>>))],
         error |-> IF Truthy(is_valid) THEN PyNone ELSE Str("Code has issues"),
         error_details |-> IF Truthy(is_valid) THEN PyNone
                           ELSE Dict([errors |-> Get(vdata, "errors", List(<<>>))])]
MergeResults(prompt, acts, wf, verification) ==
    LET vdata == Get(verification, "data", EmptyDict)
        is_valid == Get(vdata, "is_valid", Bool(FALSE))
    IN  [status |-> IF Truthy(is_valid) THEN "success" ELSE "warning",
         message |-> IF Truthy(is_valid) THEN "Code generated and verified"
                     ELSE "Code generated with issues",
         data |-> [prompt |-> prompt,
                   generated_files |-> (ACTIVITIES_PY :> acts) @@ (WORKFLOW_PY :> wf),
                   verification_status |-> Get(vdata, "verification_status", PyNone),
                   errors |-> Get(vdata, "errors", List(<<>>)),
                   warnings |-> Get(vdata, "warnings", List(<<>>))],
         error |-> IF Truthy(is_valid) THEN PyNone ELSE Str("Code has issues"),
         error_details |-> IF Truthy(is_valid) THEN PyNone
                           ELSE Dict([errors |-> Get(vdata, "errors", List(<<>>))])]

\* workflow_orchestrator.py:36  generation_result["status"] == "failed"
GenerationFailedIgnored(result) == FALSE
GenerationFailed(result) == result.status = "failed"

\* workflow_orchestrator.py:36-52: short-circuit and empty-artifact guard
CheckGenerationActivitiesOnly ==
    /\ pc = "check"
    /\ IF GenerationFailed(generation_result)
       THEN /\ final_result' = generation_result
            /\ pc' = "done"
       ELSE IF activities_code = <<>>
       THEN /\ final_result' = EmptyFilesEnvelope
            /\ pc' = "done"
       ELSE /\ pc' = "verify"
            /\ UNCHANGED final_result
    /\ UNCHANGED <<inv, last_writer, review_input, stdout_ok, template, fs_at_entry, user_prompt,
                   save_result, response, generated_code, activities, workflow, fs,
                   generation_result, verification_result, llm_calls, verify_calls>>
CheckGeneration ==
    /\ pc = "check"
    /\ IF GenerationFailed(generation_result)
       THEN /\ final_result' = generation_result
            /\ pc' = "done"
       ELSE IF activities_code = <<>> \/ workflow_code = <<>>
       THEN /\ final_result' = EmptyFilesEnvelope
            /\ pc' = "done"
       ELSE /\ pc' = "verify"
            /\ UNCHANGED final_result
    /\ UNCHANGED <<inv, last_writer, review_input, stdout_ok, template, fs_at_entry, user_prompt,
                   save_result, response, generated_code, activities, workflow, fs,
                   generation_result, verification_result, llm_calls, verify_calls>>

\* workflow_orchestrator.py:58: verify_workflow_code, with its gateway call
VerifyClearsOnFailure ==
    /\ pc = "verify"
    /\ verify_calls' = verify_calls + 1
    /\ llm_calls' = llm_calls + 1
    /\ \E reply \in ReviewReplies :
          /\ response' = reply
          /\ review_input' = [activities_code |-> activities_code,
                              workflow_code |-> workflow_code]
          /\ verification_result' =
                 verify_workflow_code(activities_code, workflow_code, reply)
          /\ fs' = IF reply.k = "raise"
                   THEN [fs EXCEPT !.act = PyNone, !.wf = PyNone]
                   ELSE fs
    /\ pc' = "merge"
    /\ UNCHANGED <<inv, last_writer, stdout_ok, template, fs_at_entry, user_prompt,
                   save_result, generated_code, activities, workflow,
                   generation_result, final_result>>
Verify ==
    /\ pc = "verify"
    /\ verify_calls' = verify_calls + 1
    /\ llm_calls' = llm_calls + 1
    /\ \E reply \in ReviewReplies :
          /\ response' = reply
          /\ review_input' = [activities_code |-> activities_code,
                              workflow_code |-> workflow_code]
          /\ verification_result' =
                 verify_workflow_code(activities_code, workflow_code, reply)
    /\ pc' = "merge"
    /\ UNCHANGED <<inv, last_writer, stdout_ok, template, fs_at_entry, user_prompt,
                   save_result, generated_code, activities, workflow, fs,
                   generation_result, final_result>>

\* workflow_orchestrator.py:60-86: merge and return
MergeWarningsAsErrors ==
    /\ pc = "merge"
    /\ LET merged == MergeResults(user_prompt, activities_code, workflow_code,
                                  verification_result)
       IN  final_result' = [merged EXCEPT !.data.errors = merged.data.warnings]
    /\ pc' = "done"
    /\ UNCHANGED <<inv, last_writer, review_input, stdout_ok, template, fs_at_entry, user_prompt,
                   save_result, response, generated_code, activities, workflow, fs,
                   generation_result, verification_result, llm_calls, verify_calls>>
Merge ==
    /\ pc = "merge"
    /\ final_result' = MergeResults(user_prompt, activities_code, workflow_code,
                                    verification_result)
    /\ pc' = "done"
    /\ UNCHANGED <<inv, last_writer, review_input, stdout_ok, template, fs_at_entry, user_prompt,
                   save_result, response, generated_code, activities, workflow, fs,
                   generation_result, verification_result, llm_calls, verify_calls>>

Next ==
    \/ Start
    \/ BuildPrompt
    \/ CallLLM
    \/ ParseCode
    \/ SaveFiles
    \/ CheckGeneration
    \/ Verify
    \/ Merge

Spec == Init /\ [][Next]_vars

\* The invocation is one sequential flow: whenever a step is possible it is
\* taken, and each gateway call returns or raises.
SpecFair == Spec /\ WF_vars(Next)

(***************************************************************************)
(* parse_generated_code on its own: every bounded text is an input.        *)
(***************************************************************************)
Markers == {"AS", "AE", "WS", "WE"}
ContentTokens == {"X", "SP", "F", "P"}
ParseContents == SeqsUpTo(ContentTokens, MaxContentLen)
Preambles == {<<>>, <<"X", "SP">>}

\* Texts made of marker pairs with content, in either order, after a preamble.
StructuredTexts ==
    {pre \o Segment(ACTIVITIES_START, ACTIVITIES_END, pa, a)
         \o Segment(WORKFLOW_START, WORKFLOW_END, pw, w) :
        <<pre, pa, a, pw, w>> \in
            Preambles \X BOOLEAN \X ParseContents \X BOOLEAN \X ParseContents}
    \cup
    {pre \o Segment(WORKFLOW_START, WORKFLOW_END, pw, w)
         \o Segment(ACTIVITIES_START, ACTIVITIES_END, pa, a) :
        <<pre, pa, a, pw, w>> \in
            Preambles \X BOOLEAN \X ParseContents \X BOOLEAN \X ParseContents}

\* Any short text at all, markers in any number and order.
FreeTexts == SeqsUpTo(Markers \cup ContentTokens, MaxTextLen)

ParseTexts == StructuredTexts \cup FreeTexts

InitParse ==
    /\ pc = "parse"
    /\ stdout_ok = TRUE
    /\ template = GoodTemplate
    /\ user_prompt \in Instructions
    /\ fs = FreshStore
    /\ fs_at_entry = fs
    /\ save_result = NoSaveResult
    /\ response = NoReply
    /\ review_input = NoReviewInput
    /\ inv = NoInvocations
    /\ last_writer = NoWriter
    /\ generated_code \in {Text(t) : t \in ParseTexts}
    /\ activities = <<>>
    /\ workflow = <<>>
    /\ generation_result = NoResult
    /\ verification_result = NoResult
    /\ final_result = NoResult
    /\ llm_calls = 1
    /\ verify_calls = 0

NextParse == ParseCode

SpecParse == InitParse /\ [][NextParse]_vars

(***************************************************************************)
(* save_generated_files on its own, called twice with the same content.    *)
(* The first call meets any filesystem behaviour; the second call finds a  *)
(* filesystem that accepts every operation.                                *)
(***************************************************************************)
InitSave ==
    /\ pc = "save_first"
    /\ stdout_ok = TRUE
    /\ template = GoodTemplate
    /\ user_prompt \in Instructions
    /\ fs \in {FreshStore, UsedStore}
    /\ fs_at_entry = fs
    /\ save_result = NoSaveResult
    /\ response = NoReply
    /\ review_input = NoReviewInput
    /\ inv = NoInvocations
    /\ last_writer = NoWriter
    /\ generated_code = Unset
    /\ activities \in ParseContents
    /\ workflow \in ParseContents
    /\ generation_result = NoResult
    /\ verification_result = NoResult
    /\ final_result = NoResult
    /\ llm_calls = 0
    /\ verify_calls = 0

\* generator.py:57-103, first call
SaveFirstCall ==
    /\ pc = "save_first"
    /\ \E mkdir_ok \in BOOLEAN, init_ok \in BOOLEAN,
          act_w \in WriteOutcomes, wf_w \in WriteOutcomes :
          LET saved == save_generated_files(fs, activities, workflow,
                                            mkdir_ok, init_ok, act_w, wf_w)
          IN  /\ fs' = saved.store
              /\ save_result' = saved.result
    /\ pc' = "save_again"
    /\ UNCHANGED <<inv, last_writer, review_input, stdout_ok, template, fs_at_entry, user_prompt, generated_code,
                   activities, workflow, response, generation_result,
                   verification_result, final_result, llm_calls, verify_calls>>

\* generator.py:57-103, second call with the same arguments
SaveSecondCall ==
    /\ pc = "save_again"
    /\ LET saved == save_generated_files(fs, activities, workflow,
                                         TRUE, TRUE, "ok", "ok")
       IN  /\ fs' = saved.store
           /\ save_result' = saved.result
    /\ pc' = "saved_twice"
    /\ UNCHANGED <<inv, last_writer, review_input, stdout_ok, template, fs_at_entry, user_prompt, generated_code,
                   activities, workflow, response, generation_result,
                   verification_result, final_result, llm_calls, verify_calls>>

NextSave == SaveFirstCall \/ SaveSecondCall

SpecSave == InitSave /\ [][NextSave]_vars

(***************************************************************************)
(* code_generation_workflow from line 36 on, given any result the           *)
(* Generation Stage could hand back: the coordinator reads only status and *)
(* data.generated_files, each through dict.get with a default.             *)
(***************************************************************************)
StubStatuses == {"success", "failed", "partial"}

\* The generated_files dict of a stage result: any subset of the two file
\* names, each with empty or non-empty content.
StubFiles ==
    {EmptyDict}
    \cup {(ACTIVITIES_PY :> a) : a \in {<<>>, <<"X">>}}
    \cup {(WORKFLOW_PY :> w) : w \in {<<>>, <<"Y">>}}
    \cup {(ACTIVITIES_PY :> a) @@ (WORKFLOW_PY :> w) :
              <<a, w>> \in {<<>>, <<"X">>} \X {<<>>, <<"Y">>}}

\* Stage results without a data key, with data lacking generated_files, and
\* with each generated_files dict.
StageResults ==
    {[status |-> st, message |-> "stub"] : st \in StubStatuses}
    \cup {[status |-> st, message |-> "stub", data |-> EmptyDict] : st \in StubStatuses}
    \cup {[status |-> st, message |-> "stub", data |-> [generated_files |-> f]] :
              <<st, f>> \in StubStatuses \X StubFiles}

InitCoord ==
    /\ pc = "check"
    /\ stdout_ok = TRUE
    /\ template = GoodTemplate
    /\ user_prompt \in Instructions
    /\ fs \in {FreshStore, UsedStore}
    /\ fs_at_entry = fs
    /\ save_result = NoSaveResult
    /\ response = NoReply
    /\ review_input = NoReviewInput
    /\ inv = NoInvocations
    /\ last_writer = NoWriter
    /\ generated_code = Unset
    /\ activities = <<>>
    /\ workflow = <<>>
    /\ generation_result \in StageResults
    /\ verification_result = NoResult
    /\ final_result = NoResult
    /\ llm_calls = 0
    /\ verify_calls = 0

NextCoord == CheckGeneration \/ Verify \/ Merge

SpecCoord == InitCoord /\ [][NextCoord]_vars

(***************************************************************************)
(* Two invocations of code_generation_workflow running at the same time.   *)
(* Everything an invocation holds is local to it; the generated/ directory *)
(* is shared.  Path.write_text opens the file for writing, which truncates *)
(* it, and writes the text from offset 0 when the file is closed: the two  *)
(* are separate steps, and nothing locks the file between them.            *)
(***************************************************************************)
invocation_vars ==
    <<review_input, pc, stdout_ok, template, fs_at_entry, user_prompt, generated_code,
      activities, workflow, save_result, response, generation_result,
      verification_result, final_result, llm_calls, verify_calls>>

ConcInstructions ==
    [p \in Procs |-> IF p = 1 THEN "create a workflow named payment"
                     ELSE "create a workflow named refund"]

\* Gateway replies of a concurrent run: a raised call, a reply without the
\* workflow block, and replies with both blocks and contents of any length.
RaceActivities == UNION {[1..k -> {"X"}] : k \in 1..MaxRaceLen}
RaceWorkflows == UNION {[1..k -> {"Y"}] : k \in 1..MaxRaceLen}
ConcGenReplies ==
    {[k |-> "raise", exc |-> e, v |-> PyNone] : e \in GatewayErrors}
    \cup {[k |-> "return", exc |-> Exc("", ""),
           v |-> Text(Segment(ACTIVITIES_START, ACTIVITIES_END, TRUE, <<"X">>))]}
    \cup {[k |-> "return", exc |-> Exc("", ""),
           v |-> Text(Segment(ACTIVITIES_START, ACTIVITIES_END, TRUE, a)
                      \o Segment(WORKFLOW_START, WORKFLOW_END, TRUE, w))] :
              <<a, w>> \in RaceActivities \X RaceWorkflows}

\* Review replies of a concurrent run: a raised call and a bare verdict
\* object that holds is_valid alone.
ConcReviewReplies ==
    {r \in ReviewReplies :
        \/ r.k = "raise"
        \/ /\ r.k = "return" /\ r.text /\ r.pre = <<>> /\ r.post = <<>>
           /\ r.body.j = "object"
           /\ DOMAIN r.body.o = {"is_valid"}
           /\ r.body.o.is_valid \in {Bool(TRUE), Bool(FALSE)}}

\* generator.py:91-96: the dict save_generated_files returns
SaveReturn(saved_files) ==
    [success |-> Len(saved_files) > 0,
     files_saved |-> saved_files,
     message |-> IF saved_files # <<>> THEN SavedMessage(Len(saved_files))
                 ELSE "Failed to save any files"]

\* write(2) of data at offset 0 into a file that holds old
WriteAt(old, data) == data \o SubSeq(old, Len(data) + 1, Len(old))

\* workflow_orchestrator.py:41-42, on an invocation's own generation result
FileIn(result, file) ==
    Get(Get(Get(result, "data", EmptyDict), "generated_files", EmptyDict), file, <<>>)

InitConc ==
    /\ pc = "concurrent"
    /\ stdout_ok = TRUE
    /\ template = GoodTemplate
    /\ user_prompt = ""
    /\ fs \in {FreshStore, UsedStore}
    /\ fs_at_entry = fs
    /\ save_result = NoSaveResult
    /\ response = NoReply
    /\ review_input = NoReviewInput
    /\ inv = [p \in Procs |-> [IdleInvocation EXCEPT !.pc = "start",
                                                     !.user_prompt = ConcInstructions[p]]]
    /\ last_writer = NoWriter
    /\ generated_code = Unset
    /\ activities = <<>>
    /\ workflow = <<>>
    /\ generation_result = NoResult
    /\ verification_result = NoResult
    /\ final_result = NoResult
    /\ llm_calls = 0
    /\ verify_calls = 0

\* workflow_orchestrator.py:34-38 with generator.py:162-218: prompt, gateway
\* call, extraction, and the short-circuit on a failed stage result
ConcGenerate(p) ==
    /\ inv[p].pc = "start"
    /\ \E reply \in ConcGenReplies :
          LET me == inv[p]
              parsed == parse_generated_code(reply.v)
              failed == IF reply.k = "raise"
                        THEN CodeGenerationFailed(me.user_prompt, reply.exc)
                        ELSE CodeParsingFailed(me.user_prompt)
          IN  inv' = [inv EXCEPT ![p] =
                  IF reply.k = "raise"
                  THEN [me EXCEPT !.pc = "done", !.generation_result = failed,
                                  !.final_result = failed]
                  ELSE IF ArtifactsEmpty(parsed.activities, parsed.workflow)
                  THEN [me EXCEPT !.pc = "done", !.generated_code = reply.v,
                                  !.activities = parsed.activities,
                                  !.workflow = parsed.workflow,
                                  !.generation_result = failed,
                                  !.final_result = failed]
                  ELSE [me EXCEPT !.pc = "mkdir", !.generated_code = reply.v,
                                  !.activities = parsed.activities,
                                  !.workflow = parsed.workflow]]
    /\ UNCHANGED <<fs, last_writer, invocation_vars>>

\* generator.py:64-70: mkdir(exist_ok=True) and __init__.py when it is missing
ConcMkdir(p) ==
    /\ inv[p].pc = "mkdir"
    /\ fs' = [fs EXCEPT !.dir = TRUE, !.init = TRUE]
    /\ inv' = [inv EXCEPT ![p].pc = "open_act"]
    /\ UNCHANGED <<last_writer, invocation_vars>>

\* generator.py:77 and 87: write_text opens the file, truncating it; when the
\* open is refused the except clause skips the file
ConcOpen(p) ==
    /\ inv[p].pc \in {"open_act", "open_wf"}
    /\ \E opened \in BOOLEAN :
          IF opened
          THEN /\ fs' = IF inv[p].pc = "open_act"
                        THEN [fs EXCEPT !.act = Text(<<>>)]
                        ELSE [fs EXCEPT !.wf = Text(<<>>)]
               /\ inv' = [inv EXCEPT ![p].pc =
                             IF inv[p].pc = "open_act" THEN "write_act" ELSE "write_wf"]
          ELSE /\ fs' = fs
               /\ inv' = [inv EXCEPT ![p].pc =
                             IF inv[p].pc = "open_act" THEN "open_wf" ELSE "saved"]
    /\ UNCHANGED <<last_writer, invocation_vars>>

\* generator.py:77-79 and 87-89: the text reaches the file, the file is closed
\* and its name is appended to saved_files
ConcWrite(p) ==
    /\ inv[p].pc \in {"write_act", "write_wf"}
    /\ IF inv[p].pc = "write_act"
       THEN /\ fs' = [fs EXCEPT !.act = Text(WriteAt(fs.act.v, inv[p].activities))]
            /\ last_writer' = [last_writer EXCEPT !.act = p]
            /\ inv' = [inv EXCEPT ![p].pc = "open_wf",
                                  ![p].saved_files = Append(@, ACTIVITIES_PY)]
       ELSE /\ fs' = [fs EXCEPT !.wf = Text(WriteAt(fs.wf.v, inv[p].workflow))]
            /\ last_writer' = [last_writer EXCEPT !.wf = p]
            /\ inv' = [inv EXCEPT ![p].pc = "saved",
                                  ![p].saved_files = Append(@, WORKFLOW_PY)]
    /\ UNCHANGED invocation_vars

\* generator.py:91-96 and 237-256, then workflow_orchestrator.py:36-52: the
\* stage result, built from the invocation's own artifacts, and the checks on it
ConcFinishFromDisk(p) ==
    /\ inv[p].pc = "saved"
    /\ LET me == inv[p]
           result == SaveOutcome(me.user_prompt,
                                 IF fs.act.t = "text" THEN fs.act.v ELSE <<>>,
                                 IF fs.wf.t = "text" THEN fs.wf.v ELSE <<>>,
                                 SaveReturn(me.saved_files))
       IN  inv' = [inv EXCEPT ![p] =
               IF GenerationFailed(result)
               THEN [me EXCEPT !.pc = "done", !.generation_result = result,
                               !.final_result = result]
               ELSE IF FileIn(result, ACTIVITIES_PY) = <<>>
                       \/ FileIn(result, WORKFLOW_PY) = <<>>
               THEN [me EXCEPT !.pc = "done", !.generation_result = result,
                               !.final_result = EmptyFilesEnvelope]
               ELSE [me EXCEPT !.pc = "verify", !.generation_result = result]]
    /\ UNCHANGED <<fs, last_writer, invocation_vars>>
ConcFinishGeneration(p) ==
    /\ inv[p].pc = "saved"
    /\ LET me == inv[p]
           result == SaveOutcome(me.user_prompt, me.activities, me.workflow,
                                 SaveReturn(me.saved_files))
       IN  inv' = [inv EXCEPT ![p] =
               IF GenerationFailed(result)
               THEN [me EXCEPT !.pc = "done", !.generation_result = result,
                               !.final_result = result]
               ELSE IF FileIn(result, ACTIVITIES_PY) = <<>>
                       \/ FileIn(result, WORKFLOW_PY) = <<>>
               THEN [me EXCEPT !.pc = "done", !.generation_result = result,
                               !.final_result = EmptyFilesEnvelope]
               ELSE [me EXCEPT !.pc = "verify", !.generation_result = result]]
    /\ UNCHANGED <<fs, last_writer, invocation_vars>>

\* workflow_orchestrator.py:58-86: verification with its gateway call, merge
ConcVerify(p) ==
    /\ inv[p].pc = "verify"
    /\ \E reply \in ConcReviewReplies :
          LET me == inv[p]
              acts == FileIn(me.generation_result, ACTIVITIES_PY)
              wf == FileIn(me.generation_result, WORKFLOW_PY)
          IN  inv' = [inv EXCEPT ![p] =
                  [me EXCEPT !.pc = "done", !.response = reply,
                             !.final_result =
                                 MergeResults(me.user_prompt, acts, wf,
                                     verify_workflow_code(acts, wf, reply))]]
    /\ UNCHANGED <<fs, last_writer, invocation_vars>>

NextConc ==
    \E p \in Procs :
        \/ ConcGenerate(p)
        \/ ConcMkdir(p)
        \/ ConcOpen(p)
        \/ ConcWrite(p)
        \/ ConcFinishGeneration(p)
        \/ ConcVerify(p)

SpecConc == InitConc /\ [][NextConc]_vars

(***************************************************************************)
(* Properties                                                              *)
(***************************************************************************)
Returned == pc = "done"
GenerationReturned == pc \in {"check", "verify", "merge", "done"}
EnvelopeKeys == {"status", "message", "data", "error", "error_details"}
Statuses == {"success", "warning", "failed"}
VerdictFields == {"verification_status", "errors", "warnings"}
StageTags == {"prompt_building", "code_generation", "code_parsing", "file_saving"}

\* C1: every envelope code_generation_workflow returns has the five keys
\* status, message, data, error, error_details, and its status is one of
\* success, warning, failed -- on every return path, the short-circuit that
\* returns the Generation Stage's failed result included.
C1_EnvelopeTotality ==
    Returned =>
        /\ EnvelopeKeys \subseteq DOMAIN final_result
        /\ final_result.status \in Statuses

\* C2: when the Generation Stage result is failed, the Verification Stage is
\* never invoked and no second gateway call is made, the coordinator returns
\* the generation result unchanged, and the returned data has none of the
\* verdict-derived fields.
C2_ShortCircuit ==
    (GenerationReturned /\ generation_result.status = "failed") =>
        /\ verify_calls = 0
        /\ llm_calls <= 1
        /\ pc \in {"check", "done"}
        /\ Returned =>
              /\ final_result = generation_result
              /\ VerdictFields \cap DOMAIN final_result.data = {}

\* C2 witness: the gateway answered the generation call, the stage still
\* failed, and the coordinator has returned.
C2_Witness ==
    /\ Returned
    /\ generation_result.status = "failed"
    /\ llm_calls = 1
    /\ generated_code.t = "text"

\* C3: once the Verification Stage has been invoked, the final status is
\* success when the verdict's is_valid holds (Python truth value) and warning
\* otherwise; it is never failed, whatever the Verification Stage's status.
C3_MergeStatus ==
    (Returned /\ verify_calls > 0) =>
        /\ final_result.status # "failed"
        /\ final_result.status =
              IF Truthy(verification_result.data.is_valid) THEN "success" ELSE "warning"

\* C3 witness: the Verification Stage itself reported failed and the
\* coordinator returned warning.
C3_Witness ==
    /\ Returned
    /\ verify_calls = 1
    /\ verification_result.status = "failed"
    /\ final_result.status = "warning"

\* C4: no exception escapes code_generation_workflow, and an error nothing
\* else catches yields a failed envelope whose error_details.exception_type
\* is populated.
C4_NoEscape ==
    /\ pc # "raised"
    /\ (Returned /\ ~stdout_ok) =>
          /\ final_result.status = "failed"
          /\ "error_details" \in DOMAIN final_result
          /\ final_result.error_details.t = "dict"
          /\ "exception_type" \in DOMAIN final_result.error_details.v

\* C5: in every verdict the Verification Stage produces, a non-empty errors
\* list implies is_valid is false, also when the reply's fields disagree.
C5_VerdictConsistency ==
    (verify_calls > 0) =>
        LET verdict == verification_result.data
        IN  (verdict.errors.t = "list" /\ verdict.errors.v # <<>>)
                => ~Truthy(verdict.is_valid)

\* The artifacts an envelope carries (empty text when absent).
ArtifactOf(envelope, name) ==
    Get(Get(envelope.data, "generated_files", EmptyDict), name, <<>>)

\* C6: a returned failed envelope carries no artifacts (generated_files empty
\* or absent); a success envelope carries both artifacts non-empty and an
\* empty error list; a warning envelope carries both artifacts.
C6_StatusInvariant ==
    Returned =>
        /\ final_result.status = "failed" =>
              Get(final_result.data, "generated_files", EmptyDict) = EmptyDict
        /\ final_result.status = "success" =>
              /\ ArtifactOf(final_result, ACTIVITIES_PY) # <<>>
              /\ ArtifactOf(final_result, WORKFLOW_PY) # <<>>
              /\ ~Truthy(final_result.data.errors)
        /\ final_result.status = "warning" =>
              /\ ArtifactOf(final_result, ACTIVITIES_PY) # <<>>
              /\ ArtifactOf(final_result, WORKFLOW_PY) # <<>>

\* The stage tag generate_temporal_code records, under data.details.
StageOf(envelope) ==
    Get(Get(Get(envelope, "data", EmptyDict), "details", EmptyDict), "stage", "")

\* Extraction has run on the gateway's reply.
Extracted == generated_code.t # "unset" /\ pc # "parse"

\* C7: whenever extraction yields at least one empty artifact, the Generation
\* Stage result is failed with stage code_parsing although the gateway call
\* succeeded; a reply without any marker ends in a failed final envelope with
\* stage code_parsing and the Verification Stage never called.
C7_EmptyArtifact ==
    /\ (Extracted /\ (activities = <<>> \/ workflow = <<>>)) =>
          /\ generation_result.status = "failed"
          /\ StageOf(generation_result) = "code_parsing"
          /\ verify_calls = 0
    /\ (Returned /\ generated_code.t = "text"
            /\ \A i \in 1..Len(generated_code.v) : generated_code.v[i] \notin Markers) =>
          /\ final_result.status = "failed"
          /\ StageOf(final_result) = "code_parsing"
          /\ verify_calls = 0

\* C7 witness: the reply held a usable activities block and no workflow
\* block, and the coordinator has returned.
C7_Witness ==
    /\ Returned
    /\ Extracted
    /\ activities # <<>>
    /\ workflow = <<>>

\* C8: a failed Generation Stage result names the failed step under
\* error_details.stage, and every returned non-success envelope (failed or
\* warning) carries such a stage tag in error_details.
HasStageTag(envelope) ==
    /\ "error_details" \in DOMAIN envelope
    /\ envelope.error_details.t = "dict"
    /\ "stage" \in DOMAIN envelope.error_details.v
    /\ envelope.error_details.v.stage \in StageTags
C8_StageTag ==
    /\ (GenerationReturned /\ generation_result.status = "failed") =>
          HasStageTag(generation_result)
    /\ (Returned /\ final_result.status # "success") => HasStageTag(final_result)

\* C9: in every returned envelope error is null exactly when status is
\* success, and error_details is null when status is success.
C9_ErrorNullness ==
    Returned =>
        /\ (final_result.error = PyNone) <=> (final_result.status = "success")
        /\ final_result.status = "success" =>
              /\ "error_details" \in DOMAIN final_result
              /\ final_result.error_details = PyNone

\* C9 witness: a returned success envelope and its null error fields.
C9_Witness ==
    /\ Returned
    /\ final_result.status = "success"
    /\ final_result.error = PyNone

\* Reading a text as marker pairs with contents.
Count(t, tok) == Cardinality({i \in 1..Len(t) : t[i] = tok})
PosOf(t, tok) == CHOOSE i \in 1..Len(t) : t[i] = tok
ContentOf(t, startm, endm) ==
    SubSeq(t, PosOf(t, startm[1]) + 1, PosOf(t, endm[1]) - 1)
\* The pair occurs once, START before END, with no marker inside its content.
PairPresent(t, startm, endm) ==
    /\ Count(t, startm[1]) = 1
    /\ Count(t, endm[1]) = 1
    /\ PosOf(t, startm[1]) < PosOf(t, endm[1])
    /\ \A i \in 1..Len(ContentOf(t, startm, endm)) :
          ContentOf(t, startm, endm)[i] \notin Markers
PairMissing(t, startm, endm) ==
    Count(t, startm[1]) = 0 /\ Count(t, endm[1]) = 0

\* A content with its fenced-code delimiters (``` and ```python) deleted.
RECURSIVE KeepFrom(_, _)
KeepFrom(c, i) ==
    IF i > Len(c) THEN <<>>
    ELSE (IF c[i] = "F" \/ (c[i] = "P" /\ i > 1 /\ c[i - 1] = "F")
          THEN <<>> ELSE <<c[i]>>) \o KeepFrom(c, i + 1)
Defenced(c) == KeepFrom(c, 1)
HasFence(c) == \E i \in 1..Len(c) : c[i] = "F"

Parsed == pc \in {"save", "check"} /\ generated_code.t = "text"

\* C10 (as claimed): for a text with both marker pairs and contents A and W,
\* parse_generated_code returns exactly (A stripped, W stripped), for any
\* contents, fenced-code delimiters included; with one pair missing that slot
\* is empty and the other slot is as if both pairs were present.
C10_RoundTripExact ==
    Parsed =>
        LET t == generated_code.v
            hasA == PairPresent(t, ACTIVITIES_START, ACTIVITIES_END)
            hasW == PairPresent(t, WORKFLOW_START, WORKFLOW_END)
            noA == PairMissing(t, ACTIVITIES_START, ACTIVITIES_END)
            noW == PairMissing(t, WORKFLOW_START, WORKFLOW_END)
        IN  /\ (hasA /\ (hasW \/ noW)) =>
                  activities = Strip(ContentOf(t, ACTIVITIES_START, ACTIVITIES_END))
            /\ (hasW /\ (hasA \/ noA)) =>
                  workflow = Strip(ContentOf(t, WORKFLOW_START, WORKFLOW_END))
            /\ (noA /\ hasW) => activities = <<>>
            /\ (noW /\ hasA) => workflow = <<>>

\* C10 (amended): each slot is the pair's content with every fenced-code
\* delimiter deleted and the surrounding whitespace stripped, which is exactly
\* the stripped content when the content holds no delimiter; with one pair
\* missing that slot is empty and the other slot is as if both were present.
C10_RoundTripDefenced ==
    Parsed =>
        LET t == generated_code.v
            hasA == PairPresent(t, ACTIVITIES_START, ACTIVITIES_END)
            hasW == PairPresent(t, WORKFLOW_START, WORKFLOW_END)
            noA == PairMissing(t, ACTIVITIES_START, ACTIVITIES_END)
            noW == PairMissing(t, WORKFLOW_START, WORKFLOW_END)
            A == ContentOf(t, ACTIVITIES_START, ACTIVITIES_END)
            W == ContentOf(t, WORKFLOW_START, WORKFLOW_END)
        IN  /\ (hasA /\ (hasW \/ noW)) =>
                  /\ activities = Strip(Defenced(A))
                  /\ ~HasFence(A) => activities = Strip(A)
            /\ (hasW /\ (hasA \/ noA)) =>
                  /\ workflow = Strip(Defenced(W))
                  /\ ~HasFence(W) => workflow = Strip(W)
            /\ (noA /\ hasW) => activities = <<>>
            /\ (noW /\ hasA) => workflow = <<>>

\* C10 witness: both pairs present, the activities content holds a delimiter
\* and other text, and both slots came out non-empty.
C10_Witness ==
    /\ Parsed
    /\ PairPresent(generated_code.v, ACTIVITIES_START, ACTIVITIES_END)
    /\ PairPresent(generated_code.v, WORKFLOW_START, WORKFLOW_END)
    /\ HasFence(ContentOf(generated_code.v, ACTIVITIES_START, ACTIVITIES_END))
    /\ activities # <<>>
    /\ workflow # <<>>

\* The review reply is a text (or None) that does not parse as a JSON object.
Unparsable(reply) ==
    /\ reply.k = "return"
    /\ \/ ~reply.text
       \/ StripJsonFences(reply.pre) # <<>>
       \/ StripJsonFences(reply.post) # <<>>
       \/ reply.body.j # "object"

Verified == verify_calls > 0

\* C11: when the review reply cannot be parsed as a structured verdict,
\* verify_workflow_code does not raise; it returns status failed with a
\* verdict whose is_valid is false and whose errors list holds exactly one
\* synthetic error describing the failure.
C11_VerificationDegrades ==
    (Verified /\ Unparsable(response)) =>
        /\ pc \in {"merge", "done"}
        /\ verification_result.status = "failed"
        /\ verification_result.data.is_valid = Bool(FALSE)
        /\ verification_result.data.errors.t = "list"
        /\ Len(verification_result.data.errors.v) = 1
        /\ verification_result.data.errors.v[1] =
               "Verification error: " \o verification_result.error.v

\* C11 witness: the reply was prose around a JSON body, and the stage has
\* returned its manufactured verdict.
C11_Witness ==
    /\ Verified
    /\ response.k = "return"
    /\ response.text
    /\ StripJsonFences(response.pre) # <<>>
    /\ verification_result.status = "failed"

\* Position of each control point in the coordinator's flow
\* GENERATE (1-4) -> guard (5) -> VERIFY (6) -> MERGE (7) -> returned (8).
PcRank(p) ==
    CASE p = "start" -> 0
      [] p = "build_prompt" -> 1
      [] p = "call_llm" -> 2
      [] p = "parse" -> 3
      [] p = "save" -> 4
      [] p = "check" -> 5
      [] p = "verify" -> 6
      [] p = "merge" -> 7
      [] p = "done" -> 8
      [] p = "raised" -> 8

\* C12: every invocation terminates with one of the three outcomes failed,
\* success, warning (each gateway call returning or failing); no step leads
\* back to GENERATE or VERIFY, so each stage runs at most once.
C12_TerminatesOnce ==
    /\ <>(Returned /\ final_result.status \in Statuses)
    /\ [][PcRank(pc') > PcRank(pc)]_vars
    /\ [](llm_calls <= 2 /\ verify_calls <= 1)

BothSaved == <<ACTIVITIES_PY, WORKFLOW_PY>>

\* C13: a second save_generated_files call with the same content does not
\* fail because the directory and files exist, and leaves both files with
\* the contents they had after the first call.
C13_IdempotentSave ==
    [][pc = "save_again" =>
          /\ save_result'.success
          /\ save_result'.files_saved = BothSaved
          /\ fs'.act = Text(activities)
          /\ fs'.wf = Text(workflow)
          /\ save_result.files_saved = BothSaved => fs' = fs]_vars

\* C13 witness: both calls saved both files over files that existed before.
C13_Witness ==
    /\ pc = "saved_twice"
    /\ fs_at_entry = UsedStore
    /\ save_result.files_saved = BothSaved
    /\ fs.act = Text(activities)
    /\ activities # <<>>

EarlyStages == {"prompt_building", "code_generation", "code_parsing"}

\* C14: persistence is attempted only when both extracted artifacts are
\* non-empty; whenever the Generation Stage fails at prompt_building,
\* code_generation or code_parsing, the file store is exactly as it was when
\* the invocation began and save_generated_files was never called.
C14_NoEarlyPersistence ==
    /\ (GenerationReturned /\ generation_result.status = "failed"
            /\ StageOf(generation_result) \in EarlyStages) =>
          /\ fs = fs_at_entry
          /\ save_result = NoSaveResult
    /\ save_result # NoSaveResult => (activities # <<>> /\ workflow # <<>>)
    /\ fs # fs_at_entry => save_result # NoSaveResult

\* C14 witness: files existed before the invocation, the gateway answered,
\* extraction left the workflow artifact empty and the stage has failed.
C14_Witness ==
    /\ GenerationReturned
    /\ fs_at_entry = UsedStore
    /\ generation_result.status = "failed"
    /\ StageOf(generation_result) = "code_parsing"
    /\ activities # <<>>
    /\ workflow = <<>>

\* C15: the Verification Stage leaves the file store as it found it, for
\* every gateway reply: a raised call, a None reply, malformed or non-object
\* JSON, and every verdict object.
C15_VerifyKeepsFiles ==
    [][pc = "verify" => (pc' = "merge" /\ fs' = fs)]_vars

\* C15 witness: the verification gateway call raised after both files had
\* been written, and the files still hold the extracted artifacts.
C15_Witness ==
    /\ pc = "merge"
    /\ response.k = "raise"
    /\ verification_result.status = "failed"
    /\ fs.act = Text(activities)
    /\ fs.wf = Text(workflow)

SaveAttempted == save_result # NoSaveResult

\* The message the Generation Stage gives when both files were saved.
FullSuccessMessage ==
    SaveOutcome(user_prompt, activities, workflow,
                [success |-> TRUE, files_saved |-> BothSaved,
                 message |-> SavedMessage(2)]).message

\* The status half of C16: one file saved is success, no file saved is failed
\* with stage file_saving, and file_saving is reported in no other case.
PartialStatus ==
    (GenerationReturned /\ SaveAttempted) =>
        /\ Len(save_result.files_saved) = 1 => generation_result.status = "success"
        /\ save_result.files_saved = <<>> <=>
              (generation_result.status = "failed"
                  /\ StageOf(generation_result) = "file_saving")

\* C16: when exactly one of the two file writes fails the Generation Stage
\* still reports success (failed with stage file_saving only when no file was
\* saved), and the message of the partial result differs from the message of
\* a full success.
C16_PartialPersistence ==
    /\ PartialStatus
    /\ (GenerationReturned /\ SaveAttempted /\ Len(save_result.files_saved) = 1) =>
          generation_result.message # FullSuccessMessage

\* C17: the verification gateway call starts only after the generation
\* gateway call has returned text, extraction has given two non-empty
\* artifacts and save_generated_files has been attempted; an invocation makes
\* at most two gateway calls, one of them for generation and at most one for
\* verification; and verify_workflow_code receives exactly the artifacts
\* extracted in this invocation.
C17_OrderAndBudget ==
    /\ llm_calls <= 2
    /\ verify_calls <= 1
    /\ llm_calls - verify_calls <= 1
    /\ (pc = "verify" \/ Verified) =>
          /\ llm_calls - verify_calls = 1
          /\ generated_code.t = "text"
          /\ Extracted
          /\ activities # <<>>
          /\ workflow # <<>>
          /\ SaveAttempted
          /\ generation_result.status = "success"
    /\ Verified =>
          review_input = [activities_code |-> activities, workflow_code |-> workflow]
    /\ ~Verified => review_input = NoReviewInput

\* C17 witness: verification has run on two different artifacts.
C17_Witness ==
    /\ Verified
    /\ llm_calls = 2
    /\ activities # workflow
    /\ review_input.activities_code = activities

\* The coordinator has returned from its merge step.
Merged == Returned /\ Verified

\* The review reply was a JSON object whose errors entry is a list, and
\* verify_workflow_code did not raise on its warnings entry.
ReplyErrorList ==
    /\ response.k = "return" /\ response.text
    /\ StripJsonFences(response.pre) = <<>> /\ StripJsonFences(response.post) = <<>>
    /\ response.body.j = "object"
    /\ "errors" \in DOMAIN response.body.o
    /\ response.body.o.errors.t = "list"
    /\ "warnings" \in DOMAIN response.body.o => HasLen(response.body.o.warnings)

\* C18: the merged envelope's data holds the instruction, both artifacts
\* under their file names, the verdict's validity label and the verdict's
\* errors and warnings lists in their order (which is the order of the review
\* reply); with status warning, error is the fixed string "Code has issues"
\* and error_details.errors is the verdict's error list, equal to data.errors;
\* with status success both are None.
C18_MergePayload ==
    Merged =>
        /\ final_result.data.prompt = user_prompt
        /\ final_result.data.generated_files =
               (ACTIVITIES_PY :> activities) @@ (WORKFLOW_PY :> workflow)
        /\ final_result.data.verification_status =
               verification_result.data.verification_status
        /\ final_result.data.errors = verification_result.data.errors
        /\ final_result.data.warnings = verification_result.data.warnings
        /\ ReplyErrorList => final_result.data.errors = response.body.o.errors
        /\ final_result.status \in {"success", "warning"}
        /\ final_result.status = "warning" =>
              /\ final_result.error = Str("Code has issues")
              /\ final_result.error_details =
                     Dict([errors |-> verification_result.data.errors])
              /\ final_result.error_details.v.errors = final_result.data.errors
        /\ final_result.status = "success" =>
              /\ final_result.error = PyNone
              /\ final_result.error_details = PyNone

\* C18 witness: a warning envelope carrying two different errors and a warning.
C18_Witness ==
    /\ Merged
    /\ final_result.status = "warning"
    /\ final_result.data.errors.t = "list"
    /\ Len(final_result.data.errors.v) = 2
    /\ final_result.data.errors.v[1] # final_result.data.errors.v[2]
    /\ final_result.data.warnings = List(<<"warning 1">>)

\* The content a stage result holds for a file: empty when the data, the
\* generated_files dict or the file's entry is missing.
ContentIn(result, file) ==
    IF "data" \notin DOMAIN result THEN <<>>
    ELSE IF "generated_files" \notin DOMAIN result.data THEN <<>>
    ELSE IF file \notin DOMAIN result.data.generated_files THEN <<>>
    ELSE result.data.generated_files[file]

LacksContent(result) ==
    ContentIn(result, ACTIVITIES_PY) = <<>> \/ ContentIn(result, WORKFLOW_PY) = <<>>

\* C19: when the Generation Stage result is not failed but its activities or
\* workflow content is empty or missing, the coordinator never calls the
\* Verification Stage and returns a failed envelope with the message
\* "Code generation produced empty files".
C19_EmptyFilesGuard ==
    (generation_result.status \in StubStatuses \ {"failed"}
        /\ LacksContent(generation_result)) =>
            /\ pc \in {"check", "done"}
            /\ verify_calls = 0
            /\ llm_calls = 0
            /\ verification_result = NoResult
            /\ Returned =>
                  /\ final_result.status = "failed"
                  /\ final_result.message = "Code generation produced empty files"
                  /\ EnvelopeKeys \subseteq DOMAIN final_result

\* C19 witness: a success result holding activities but no workflow entry
\* has been turned into the failed envelope.
C19_Witness ==
    /\ Returned
    /\ generation_result.status = "success"
    /\ ContentIn(generation_result, ACTIVITIES_PY) # <<>>
    /\ "data" \in DOMAIN generation_result
    /\ "generated_files" \in DOMAIN generation_result.data
    /\ WORKFLOW_PY \notin DOMAIN generation_result.data.generated_files
    /\ final_result.message = "Code generation produced empty files"

\* C20: when the prompt template cannot be loaded or filled, the Generation
\* Stage returns failed with stage prompt_building, the gateway has not been
\* called and the file store is as it was at entry; no other failure carries
\* the stage prompt_building.
C20_TemplateFailure ==
    GenerationReturned =>
        /\ ~template.ok =>
              /\ generation_result.status = "failed"
              /\ StageOf(generation_result) = "prompt_building"
              /\ llm_calls = 0
              /\ generated_code = Unset
              /\ fs = fs_at_entry
              /\ ~SaveAttempted
        /\ StageOf(generation_result) = "prompt_building" => ~template.ok

\* C20 witness: the template's placeholders could not be filled, files
\* existed before the invocation, and the coordinator has returned.
C20_Witness ==
    /\ Returned
    /\ ~template.ok
    /\ template.exc.type = "KeyError"
    /\ fs_at_entry = UsedStore
    /\ final_result.status = "failed"

\* C22: whenever generate_temporal_code returns status success, its
\* data.generated_files has exactly the keys activities.py and workflow.py,
\* both with non-empty content; so the coordinator never takes its
\* empty-files branch after the real Generation Stage.
C22_SuccessHasBothFiles ==
    /\ (GenerationReturned /\ generation_result.status = "success") =>
          /\ DOMAIN generation_result.data.generated_files =
                 {ACTIVITIES_PY, WORKFLOW_PY}
          /\ generation_result.data.generated_files[ACTIVITIES_PY] # <<>>
          /\ generation_result.data.generated_files[WORKFLOW_PY] # <<>>
          /\ activities_code # <<>>
          /\ workflow_code # <<>>
    /\ GenerationReturned => generation_result.status \in {"success", "failed"}
    /\ Returned => final_result # EmptyFilesEnvelope

\* C22 witness: the stage succeeded although only one file could be written,
\* and the coordinator went on to verification.
C22_Witness ==
    /\ Verified
    /\ generation_result.status = "success"
    /\ save_result.files_saved = <<WORKFLOW_PY>>
    /\ activities_code # <<>>

\* C23: when the review gateway call raises after a successful generation,
\* the coordinator returns status warning (not failed) with both artifacts,
\* data.errors is the one-element list holding the synthetic verification
\* error, and every file the Generation Stage wrote still holds its artifact.
C23_VerifyGatewayFailure ==
    (Returned /\ Verified /\ response.k = "raise") =>
        /\ generation_result.status = "success"
        /\ final_result.status = "warning"
        /\ final_result.data.generated_files =
               (ACTIVITIES_PY :> activities) @@ (WORKFLOW_PY :> workflow)
        /\ activities # <<>> /\ workflow # <<>>
        /\ final_result.data.errors =
               List(<<"Verification error: " \o response.exc.msg>>)
        /\ final_result.data.verification_status = Str("FAILED")
        /\ \A i \in 1..Len(save_result.files_saved) :
              /\ save_result.files_saved[i] = ACTIVITIES_PY => fs.act = Text(activities)
              /\ save_result.files_saved[i] = WORKFLOW_PY => fs.wf = Text(workflow)

\* C23 witness: both files were written, the review call raised, and the
\* coordinator has returned its envelope.
C23_Witness ==
    /\ Returned
    /\ Verified
    /\ response.k = "raise"
    /\ save_result.files_saved = BothSaved
    /\ fs.act = Text(activities)
    /\ final_result.status = "warning"

\* The review reply was a JSON object without the key is_valid, whose errors
\* and warnings entries, where present, are lists or null.
ReplyOmitsIsValid ==
    /\ response.k = "return" /\ response.text
    /\ StripJsonFences(response.pre) = <<>> /\ StripJsonFences(response.post) = <<>>
    /\ response.body.j = "object"
    /\ "is_valid" \notin DOMAIN response.body.o
    /\ "errors" \in DOMAIN response.body.o =>
           response.body.o.errors.t \in {"list", "none"}
    /\ "warnings" \in DOMAIN response.body.o =>
           response.body.o.warnings.t \in {"list", "none"}

\* C24: a review reply that is a JSON object without is_valid is treated as
\* valid: verify_workflow_code returns status success with is_valid true and
\* the final envelope is success, also when the reply has has_errors true or
\* a non-empty errors list (which the result then still carries).
C24_MissingIsValid ==
    (Verified /\ ReplyOmitsIsValid) =>
        /\ verification_result.status = "success"
        /\ verification_result.data.is_valid = Bool(TRUE)
        /\ verification_result.data.verification_status = Str("PASSED")
        /\ "errors" \in DOMAIN response.body.o =>
               verification_result.data.errors = response.body.o.errors
        /\ Returned =>
              /\ final_result.status = "success"
              /\ final_result.error = PyNone

\* C24 witness: the reply had has_errors true and two errors but no is_valid,
\* and the coordinator returned success.
C24_Witness ==
    /\ Returned
    /\ Verified
    /\ ReplyOmitsIsValid
    /\ "has_errors" \in DOMAIN response.body.o
    /\ response.body.o.has_errors = Bool(TRUE)
    /\ "errors" \in DOMAIN response.body.o
    /\ response.body.o.errors.t = "list"
    /\ Len(response.body.o.errors.v) = 2
    /\ final_result.status = "success"

\* Position of the first occurrence of a marker in a text, 0 if there is none.
FirstOf(t, m) ==
    LET at == {i \in 1..Len(t) : t[i] = m[1]}
    IN  IF at = {} THEN 0 ELSE CHOOSE i \in at : \A j \in at : i <= j

\* What C26 says one slot holds: the text between the first START and the
\* first END, stripped and without fenced-code delimiters, and nothing when
\* a marker is missing or the first END comes before the first START.
SlotByFirstMarkers(t, startm, endm) ==
    IF FirstOf(t, startm) = 0 \/ FirstOf(t, endm) = 0 THEN <<>>
    ELSE IF FirstOf(t, endm) < FirstOf(t, startm) THEN <<>>
    ELSE Strip(Defenced(Strip(SubSeq(t, FirstOf(t, startm) + 1,
                                        FirstOf(t, endm) - 1))))

\* The first END of the pair comes before the pair's first START.
EndBeforeStart(t, startm, endm) ==
    /\ FirstOf(t, endm) > 0
    /\ FirstOf(t, endm) < FirstOf(t, startm)

\* C26: parse_generated_code returns for every text, and each slot is decided
\* by the first occurrence of its two markers; when the first END marker of a
\* pair comes before the pair's START marker the slot is empty, a later
\* well-ordered pair notwithstanding, and the Generation Stage fails with
\* stage code_parsing.
C26_FirstMarkers ==
    /\ pc \in {"parse", "save", "check"}
    /\ Parsed =>
          LET t == generated_code.v
          IN  /\ activities = SlotByFirstMarkers(t, ACTIVITIES_START, ACTIVITIES_END)
              /\ workflow = SlotByFirstMarkers(t, WORKFLOW_START, WORKFLOW_END)
              /\ (\/ EndBeforeStart(t, ACTIVITIES_START, ACTIVITIES_END)
                  \/ EndBeforeStart(t, WORKFLOW_START, WORKFLOW_END)) =>
                     /\ pc = "check"
                     /\ generation_result.status = "failed"
                     /\ StageOf(generation_result) = "code_parsing"

\* C26 witness: an ACTIVITIES_END, then a well-ordered pair with content; the
\* activities slot is empty and the stage failed at code_parsing.
C26_Witness ==
    /\ Parsed
    /\ generated_code.v = ACTIVITIES_END \o ACTIVITIES_START \o <<"X">> \o ACTIVITIES_END
    /\ activities = <<>>
    /\ StageOf(generation_result) = "code_parsing"

AllReturned == \A p \in Procs : inv[p].pc = "done"

\* The stage result and the envelope that an invocation's own instruction,
\* gateway replies and write outcomes give.
OwnStageResult(p) ==
    IF inv[p].generated_code.t = "unset"
        THEN inv[p].generation_result \in
                 {CodeGenerationFailed(inv[p].user_prompt, e) : e \in GatewayErrors}
    ELSE IF inv[p].activities = <<>> \/ inv[p].workflow = <<>>
        THEN inv[p].generation_result = CodeParsingFailed(inv[p].user_prompt)
    ELSE inv[p].generation_result =
             SaveOutcome(inv[p].user_prompt, inv[p].activities, inv[p].workflow,
                         SaveReturn(inv[p].saved_files))
OwnEnvelope(p) ==
    /\ inv[p].generated_code.t = "text" =>
          /\ inv[p].activities = parse_generated_code(inv[p].generated_code).activities
          /\ inv[p].workflow = parse_generated_code(inv[p].generated_code).workflow
    /\ OwnStageResult(p)
    /\ IF inv[p].generation_result.status = "failed"
       THEN inv[p].final_result = inv[p].generation_result
       ELSE inv[p].final_result =
                MergeResults(inv[p].user_prompt, inv[p].activities, inv[p].workflow,
                    verify_workflow_code(inv[p].activities, inv[p].workflow,
                                         inv[p].response))

\* The envelope half of C21: what an invocation returns is a function of its
\* own instruction, replies and write outcomes.
EnvelopesIndependent == AllReturned => \A p \in Procs : OwnEnvelope(p)

\* The file half of C21: each file holds what its last writer wrote.
LastWriterWins ==
    AllReturned =>
        /\ last_writer.act # 0 => fs.act = Text(inv[last_writer.act].activities)
        /\ last_writer.wf # 0 => fs.wf = Text(inv[last_writer.wf].workflow)

\* C21: after two concurrent invocations have returned, each persisted file
\* holds the content written by the invocation that wrote it last, and each
\* invocation's envelope is determined by its own instruction and gateway
\* replies alone.
C21_ConcurrentInvocations ==
    /\ LastWriterWins
    /\ EnvelopesIndependent

\* A returned invocation whose stage succeeded reports its own two artifacts.
ReportsMatchedPair(p) ==
    /\ inv[p].generation_result.data.generated_files =
           (ACTIVITIES_PY :> inv[p].activities) @@ (WORKFLOW_PY :> inv[p].workflow)
    /\ inv[p].final_result.data.generated_files =
           inv[p].generation_result.data.generated_files

\* The two files on disk were last written by different invocations, whose
\* artifacts differ.
FilesFromDifferentGenerations ==
    /\ last_writer.act # 0
    /\ last_writer.wf # 0
    /\ last_writer.act # last_writer.wf
    /\ inv[1].activities # inv[2].activities
    /\ inv[1].workflow # inv[2].workflow
    /\ fs.act = Text(inv[last_writer.act].activities)
    /\ fs.wf = Text(inv[last_writer.wf].workflow)

\* One invocation alone wrote, and one of its two writes failed: one file is
\* its artifact, the other file is what was on disk before.
OneWriteFailed ==
    \E p \in Procs :
        /\ inv[p].saved_files = <<ACTIVITIES_PY>>
        /\ last_writer = [act |-> p, wf |-> 0]
        /\ fs.act = Text(inv[p].activities)
        /\ fs.wf = fs_at_entry.wf
        /\ fs_at_entry = UsedStore

\* C25: the two files are written one after the other, so the files on disk
\* can come from different generations (two concurrent successful
\* generations, or one generation with a failed write); every success
\* envelope nevertheless reports that invocation's own matched pair.
C25_MixedPair ==
    AllReturned =>
        \A p \in Procs :
            inv[p].generation_result.status = "success" => ReportsMatchedPair(p)

\* C25 witness: both generations succeeded and saved both files, and the
\* activities file on disk is from one of them, the workflow file from the
\* other.
C25_Witness ==
    /\ AllReturned
    /\ \A p \in Procs :
          /\ inv[p].generation_result.status = "success"
          /\ inv[p].saved_files = BothSaved
          /\ ReportsMatchedPair(p)
    /\ FilesFromDifferentGenerations

\* The single-generation case of C25.
MixedPairAfterFailedWrite ==
    /\ AllReturned
    /\ OneWriteFailed
    /\ \E p \in Procs :
          /\ inv[p].saved_files = <<ACTIVITIES_PY>>
          /\ inv[p].generation_result.status = "success"
          /\ ReportsMatchedPair(p)

====
